---- MODULE Spec2Model ----
(***************************************************************************)
(* FDSelect subsetting of hb-subset-cff-common.cc: the planner            *)
(* hb_plan_subset_cff_fdselect and the serializer                          *)
(* hb_serialize_cff_fdselect, with the plan objects the caller passes.     *)
(***************************************************************************)
EXTENDS Integers, Sequences, FiniteSets, TLC

(* ------------------------------ bounds -------------------------------- *)
\* glyphs of a small source font
NumGlyphs == 12
\* font dicts of a small source font
MaxFdCount == 3
\* glyphs of a large source font (a narrow source tells 256 font dicts apart)
LargeGlyphs == 258
\* longest interval of glyphs dropped from a large source font
MaxLargeDrop == 3
\* planner calls on the same plan objects (SpecReuse)
MaxCalls == 2

(* --------------------------- program constants ------------------------ *)
\* 0xFFFFFFFF. A 32-bit word u is held as the integer u when u < 2^31 and as
\* u - 2^32 otherwise, which leaves its bytes (floor division) unchanged.
CFF_UNDEF_CODE == -1
HBUINT8_static_size == 1
HBUINT16_static_size == 2
HBUINT32_static_size == 4
FDSelect_min_size == 1
FDSelect0_min_size == 1
FDSelect3_min_size == 5
FDSelect4_min_size == 9
FDSelect3_Range_static_size == 3
FDSelect4_Range_static_size == 6

VARIABLES pc, calls, glyphs, fdCount, src,
          subset_fd_count, subst_fdselect_size, subst_fdselect_format,
          subst_first_glyphs, fdmap, num_ranges,
          entry_first_glyphs, entry_fdmap,
          head, out, writes

vars == <<pc, calls, glyphs, fdCount, src,
          subset_fd_count, subst_fdselect_size, subst_fdselect_format,
          subst_first_glyphs, fdmap, num_ranges,
          entry_first_glyphs, entry_fdmap,
          head, out, writes>>

(* ------------------------------ helpers ------------------------------- *)
\* whether the 32-bit word v is kept whole by a field of w bytes
Fits(w, v) == w = 4 \/ (v >= 0 /\ v < (IF w = 1 THEN 256 ELSE 65536))

\* FDSelect::get_fd: the font dict of an original glyph
get_fd(s, g) == s.fds[g]

\* Remap: a vector of new indices (CFF_UNDEF_CODE: unmapped) and a count
RemapInit == [map |-> <<>>, count |-> 0]

\* Remap::reset (size)
RemapReset(size) == [map |-> [j \in 1..size |-> CFF_UNDEF_CODE], count |-> 0]

\* Remap::add (i)
RemapAdd(m, i) ==
  IF m.map[i + 1] = CFF_UNDEF_CODE
    THEN [map |-> [m.map EXCEPT ![i + 1] = m.count], count |-> m.count + 1]
    ELSE m

\* Remap::operator[] (hb_vector_t: Null (0) when out of range)
RemapGet(m, i) == IF i + 1 \in DOMAIN m.map THEN m.map[i + 1] ELSE 0

(* ------------------------------ planner ------------------------------- *)
\* (mutant) the loop body without the update of prev_fd
ScanStepKeepsPrev(gs, s, i, st) ==
  LET fd == get_fd(s, gs[i + 1])
  IN IF fd # st.prev_fd
       THEN [set          |-> st.set \cup {fd},
             prev_fd      |-> st.prev_fd,
             num_ranges   |-> st.num_ranges + 1,
             first_glyphs |-> Append(st.first_glyphs, i)]
       ELSE [st EXCEPT !.set = @ \cup {fd}]

\* one iteration of the loop over the glyphs, at position i (0-based)
ScanStep(gs, s, i, st) ==
  LET fd == get_fd(s, gs[i + 1])
  IN IF fd # st.prev_fd
       THEN [set          |-> st.set \cup {fd},
             prev_fd      |-> fd,
             num_ranges   |-> st.num_ranges + 1,
             first_glyphs |-> Append(st.first_glyphs, i)]
       ELSE [st EXCEPT !.set = @ \cup {fd}]

\* the iterations lo..hi-1 of the loop in order, from state st. The loop is
\* evaluated by halves, the first half before the second (x is bound to its
\* value), which keeps the evaluation shallow for long glyph sequences.
RECURSIVE ScanGlyphs(_, _, _, _, _)
ScanGlyphs(gs, s, lo, hi, st) ==
  IF lo >= hi THEN st
  ELSE IF lo + 1 = hi THEN ScanStep(gs, s, lo, st)
  ELSE LET mid == (lo + hi) \div 2
       IN CHOOSE r \in { ScanGlyphs(gs, s, mid, hi, x) :
                           x \in {ScanGlyphs(gs, s, lo, mid, st)} } : TRUE

\* the state of the pass before the first glyph
ScanStart(first) ==
  [set |-> {}, prev_fd |-> CFF_UNDEF_CODE, num_ranges |-> 0, first_glyphs |-> first]

\* (mutant) the count of the ranges in place of the population of the set
SubsetFdCountOfRanges(st) == st.num_ranges

\* subset_fd_count = set->get_population ()
SubsetFdCount(st) == Cardinality(st.set)

\* (mutant) the members of the set are added in descending order
AddAllDescending(m, S, lo, hi) ==
  [map   |-> [j \in DOMAIN m.map |->
                IF (j - 1) \in S THEN Cardinality({x \in S : x > j - 1}) ELSE m.map[j]],
   count |-> m.count + Cardinality(S)]

\* while (set->next (&fd)) fdmap.add (fd): the members of the set among
\* lo..hi-1 are added in ascending order
RECURSIVE AddAll(_, _, _, _)
AddAll(m, S, lo, hi) ==
  IF lo >= hi THEN m
  ELSE IF lo + 1 = hi THEN (IF lo \in S THEN RemapAdd(m, lo) ELSE m)
  ELSE LET mid == (lo + hi) \div 2
       IN CHOOSE r \in { AddAll(x, S, mid, hi) : x \in {AddAll(m, S, lo, mid)} } : TRUE

\* the sizes (unsigned int; far from wrapping for the glyph counts modelled)
Format0Size(n) == FDSelect0_min_size + HBUINT8_static_size * n

Format3Size(nr) == FDSelect3_min_size + FDSelect3_Range_static_size * nr

Format4Size(nr) == FDSelect4_min_size + FDSelect4_Range_static_size * nr

\* (mutant) equal sizes choose format 3
ChooseFormatStrict(s, n, count, nr, first) ==
  IF count > 255
    THEN IF s.format # 4
           THEN [pc |-> "aborted", format |-> 0, size |-> 0, first |-> first]
           ELSE [pc |-> "planned", format |-> 4, size |-> Format4Size(nr), first |-> first]
    ELSE IF Format0Size(n) < Format3Size(nr)
           THEN [pc |-> "planned", format |-> 0, size |-> Format0Size(n), first |-> <<>>]
           ELSE [pc |-> "planned", format |-> 3, size |-> Format3Size(nr), first |-> first]

\* (mutant) the format of the source is not asserted
ChooseFormatNoAssert(s, n, count, nr, first) ==
  IF count > 255
    THEN [pc |-> "planned", format |-> 4, size |-> Format4Size(nr), first |-> first]
    ELSE IF Format0Size(n) <= Format3Size(nr)
           THEN [pc |-> "planned", format |-> 0, size |-> Format0Size(n), first |-> <<>>]
           ELSE [pc |-> "planned", format |-> 3, size |-> Format3Size(nr), first |-> first]

\* the format decision
ChooseFormat(s, n, count, nr, first) ==
  IF count > 255
    THEN IF s.format # 4
           THEN [pc |-> "aborted", format |-> 0, size |-> 0, first |-> first]
           ELSE [pc |-> "planned", format |-> 4, size |-> Format4Size(nr), first |-> first]
    ELSE IF Format0Size(n) <= Format3Size(nr)
           THEN [pc |-> "planned", format |-> 0, size |-> Format0Size(n), first |-> <<>>]
           ELSE [pc |-> "planned", format |-> 3, size |-> Format3Size(nr), first |-> first]

\* hb_plan_subset_cff_fdselect on the plan objects (first, m); alloc tells
\* which allocation fails: hb_set_create ("no_set"), fdmap.reset ("no_map")
\* or none ("ok")
PlanResult(gs, fdc, s, first, m, alloc) ==
  LET n  == Len(gs)
      st == ScanGlyphs(gs, s, 0, n, ScanStart(first))
      count == SubsetFdCount(st)
      zero == [pc |-> "empty", subset_fd_count |-> 0, size |-> 0, format |-> 0,
               first |-> first, fdmap |-> m, num_ranges |-> 0]
  IN IF n = 0 THEN zero
     ELSE IF alloc = "no_set" THEN [zero EXCEPT !.pc = "plan_failed"]
     ELSE IF count = fdc
       THEN [zero EXCEPT !.pc = "identity", !.subset_fd_count = count,
                         !.first = st.first_glyphs, !.num_ranges = st.num_ranges]
     ELSE IF alloc = "no_map"
       THEN [zero EXCEPT !.pc = "plan_failed", !.subset_fd_count = count,
                         !.first = st.first_glyphs, !.num_ranges = st.num_ranges]
     ELSE LET m2 == AddAll(RemapReset(fdc), st.set, 0, fdc)
              ch == ChooseFormat(s, n, count, st.num_ranges, st.first_glyphs)
          IN IF m2.count # count
               THEN [zero EXCEPT !.pc = "aborted", !.subset_fd_count = count,
                                 !.first = st.first_glyphs, !.fdmap = m2,
                                 !.num_ranges = st.num_ranges]
               ELSE [pc |-> ch.pc, subset_fd_count |-> count, size |-> ch.size,
                     format |-> ch.format, first |-> ch.first, fdmap |-> m2,
                     num_ranges |-> st.num_ranges]

(* ----------------------------- serializer ----------------------------- *)
\* BEInt::set (v) of a field of w bytes at offset off
Write(off, w, v) == [off |-> off, w |-> w, v |-> v]

\* the k-th (0-based) byte of a big-endian field of w bytes set to v
FieldByte(w, v, k) ==
  IF k = w - 1 THEN v % 256
  ELSE IF k = w - 2 THEN (v \div 256) % 256
  ELSE IF k = w - 3 THEN (v \div 65536) % 256
  ELSE (v \div 16777216) % 256

\* the bytes of one write
WriteBytes(x) == [o \in (x.off)..(x.off + x.w - 1) |-> FieldByte(x.w, x.v, o - x.off)]

\* the buffer after the writes ws[lo..hi] in order (a later write overwrites
\* an earlier one)
RECURSIVE ApplyWrites(_, _, _, _)
ApplyWrites(buf, ws, lo, hi) ==
  IF lo > hi THEN buf
  ELSE IF lo = hi THEN WriteBytes(ws[lo]) @@ buf
  ELSE LET mid == (lo + hi) \div 2
       IN CHOOSE r \in { ApplyWrites(x, ws, mid + 1, hi) :
                           x \in {ApplyWrites(buf, ws, lo, mid)} } : TRUE

\* hb_serialize_context_t::allocate_size: zeroed bytes [0, h)
Zeroed(h) == [o \in 0..(h - 1) |-> 0]

\* the writes of serialize_fdselect_3_4 on the struct at offset p, with
\* GID_TYPE of gw bytes and FD_TYPE of fw bytes
Writes34(p, gw, fw, n, s, first, m) ==
  LET len == Len(first)
      rec == gw + fw
  IN <<Write(p, gw, len)>>
     \o [k \in 1..(2 * len) |->
           LET i == (k - 1) \div 2
               glyph == first[i + 1]
           IN IF k % 2 = 1
                THEN Write(p + gw + (i * rec), gw, glyph)
                ELSE Write(p + gw + (i * rec) + gw, fw, RemapGet(m, get_fd(s, glyph)))]
     \o <<Write(p + gw + (len * rec), gw, n)>>

\* the writes of case 0 on the struct at offset p
Writes0(p, gs, s, m) ==
  [k \in 1..Len(gs) |-> Write(p + (k - 1), HBUINT8_static_size,
                              RemapGet(m, get_fd(s, gs[k])))]

\* (mutant) the size is not reduced by the bytes of the format tag
RestSizeWhole(size) == size

\* the bytes the second allocation asks for
RestSize(size) == size - FDSelect_min_size

\* hb_serialize_cff_fdselect into a region with room bytes left
SerializeResult(gs, s, fmt, size, first, m, room) ==
  LET fw == <<Write(0, HBUINT8_static_size, fmt)>>
      h1 == FDSelect_min_size
      rest == RestSize(size)
      body == IF fmt = 0 THEN Writes0(h1, gs, s, m)
              ELSE IF fmt = 3
                THEN Writes34(h1, HBUINT16_static_size, HBUINT8_static_size,
                              Len(gs), s, first, m)
                ELSE Writes34(h1, HBUINT32_static_size, HBUINT16_static_size,
                              Len(gs), s, first, m)
  IN IF room < h1
       THEN [pc |-> "serialize_failed", head |-> 0, writes |-> <<>>]
     ELSE IF fmt \notin {0, 3, 4}
       THEN [pc |-> "aborted", head |-> h1, writes |-> fw]
     ELSE IF room - h1 < rest
       THEN [pc |-> "serialize_failed", head |-> h1, writes |-> fw]
     ELSE [pc |-> "serialized", head |-> h1 + rest, writes |-> fw \o body]

(* ------------------------------- inputs ------------------------------- *)
\* the glyphs 0..n-1 without [a, b), ascending
Drop(n, a, b) == [i \in 1..(n - (b - a)) |-> IF i - 1 < a THEN i - 1 ELSE (i - 1) + (b - a)]

\* a source whose glyphs before k have font dict a and the others b
StepFds(k, a, b) == [g \in 0..(NumGlyphs - 1) |-> IF g < k THEN a ELSE b]

\* a source whose glyph k has font dict b and the others a
SpikeFds(k, a, b) == [g \in 0..(NumGlyphs - 1) |-> IF g = k THEN b ELSE a]

\* a source of three ranges of equal length with font dicts c[0], c[1], c[2]
ThirdsFds(c) == [g \in 0..(NumGlyphs - 1) |-> c[(3 * g) \div NumGlyphs]]

\* a source whose glyphs 0 and 1 have font dicts c[0] and c[1], the others c[2]
HeadFds(c) == [g \in 0..(NumGlyphs - 1) |-> c[IF g < 2 THEN g ELSE 2]]

\* the sources of the small fonts with fdc font dicts: every font dict a
\* (sanitized) source names is below the font dict count
SmallSrcs(fdc) ==
  LET F == 0..(fdc - 1)
  IN { [format |-> 3, fds |-> StepFds(k, a, b)] :
         k \in 1..NumGlyphs, a \in F, b \in F }
     \cup { [format |-> 3, fds |-> SpikeFds(k, a, b)] :
         k \in 0..(NumGlyphs - 1), a \in F, b \in F }
     \cup { [format |-> f, fds |-> ThirdsFds(c)] : f \in {0, 4}, c \in [0..2 -> F] }
     \cup { [format |-> 3, fds |-> HeadFds(c)] : c \in [0..2 -> F] }

SmallGlyphs ==
  { Drop(NumGlyphs, ab[1], ab[2]) :
      ab \in { x \in (0..NumGlyphs) \X (0..NumGlyphs) : x[1] <= x[2] } }

\* a large source: one font dict per glyph, as far as the fd field of the
\* source's format can tell them apart (HBUINT8 in formats 0 and 3)
LargeFds(f) ==
  [g \in 0..(LargeGlyphs - 1) |-> IF f = 4 \/ g < 256 THEN g ELSE 255]

\* where the dropped interval of a large font starts
LargeDropAt == {0, 1, 100}

\* the glyph sequences of the calls that share their plan objects: none, and
\* glyph 0 with the glyphs from a on
ReuseGlyphs == { Drop(NumGlyphs, 1, a) : a \in {1, 2, NumGlyphs} } \cup {<<>>}

\* the sources of the calls that share their plan objects
ReuseSrcs(fdc) ==
  { [format |-> 3, fds |-> StepFds(k, a, b)] :
      k \in {2, NumGlyphs}, a \in 0..(fdc - 1), b \in 0..(fdc - 1) }

(* ---------------------------- state machine --------------------------- *)
Init ==
  /\ pc = "idle"
  /\ calls = 0
  /\ glyphs = <<>>
  /\ fdCount = 0
  /\ src = [format |-> 0, fds |-> <<>>]
  /\ subset_fd_count = 0
  /\ subst_fdselect_size = 0
  /\ subst_fdselect_format = 0
  /\ subst_first_glyphs = <<>>
  /\ fdmap = RemapInit
  /\ num_ranges = 0
  /\ entry_first_glyphs = <<>>
  /\ entry_fdmap = RemapInit
  /\ head = 0
  /\ out = <<>>
  /\ writes = <<>>

\* a call of hb_plan_subset_cff_fdselect (gs, fdc, s, ...) on the plan objects
DoPlan(gs, fdc, s, alloc) ==
  \E r \in {PlanResult(gs, fdc, s, subst_first_glyphs, fdmap, alloc)} :
     /\ pc' = r.pc
     /\ calls' = calls + 1
     /\ glyphs' = gs
     /\ fdCount' = fdc
     /\ src' = s
     /\ subset_fd_count' = r.subset_fd_count
     /\ subst_fdselect_size' = r.size
     /\ subst_fdselect_format' = r.format
     /\ subst_first_glyphs' = r.first
     /\ fdmap' = r.fdmap
     /\ num_ranges' = r.num_ranges
     /\ entry_first_glyphs' = subst_first_glyphs
     /\ entry_fdmap' = fdmap
     /\ head' = 0
     /\ out' = <<>>
     /\ writes' = <<>>

\* the planner on fresh plan objects, small font
Plan ==
  /\ pc = "idle"
  /\ \E fdc \in 1..MaxFdCount, gs \in SmallGlyphs, alloc \in {"ok", "no_set", "no_map"} :
       \E s \in SmallSrcs(fdc) : DoPlan(gs, fdc, s, alloc)

\* the planner on fresh plan objects, large font
PlanLarge ==
  /\ pc = "idle"
  /\ \E a \in LargeDropAt, d \in 0..MaxLargeDrop, f \in {3, 4},
        alloc \in {"ok", "no_set", "no_map"} :
       DoPlan(Drop(LargeGlyphs, a, a + d), LargeGlyphs,
              [format |-> f, fds |-> LargeFds(f)], alloc)

\* the planner on plan objects an earlier call has used
Replan ==
  /\ pc \in {"idle", "empty", "identity", "plan_failed", "planned",
             "serialized", "serialize_failed"}
  /\ calls < MaxCalls
  /\ \E fdc \in 1..MaxFdCount, gs \in ReuseGlyphs, alloc \in {"ok", "no_set", "no_map"} :
       \E s \in ReuseSrcs(fdc) : DoPlan(gs, fdc, s, alloc)

\* hb_serialize_cff_fdselect with the plan, into a region of room bytes
Serialize ==
  /\ pc = "planned"
  /\ \E room \in {0, FDSelect_min_size, subst_fdselect_size, 2 * subst_fdselect_size} :
       \E r \in {SerializeResult(glyphs, src, subst_fdselect_format,
                                 subst_fdselect_size, subst_first_glyphs, fdmap, room)} :
          /\ pc' = r.pc
          /\ head' = r.head
          /\ writes' = r.writes
          /\ out' = ApplyWrites(Zeroed(r.head), r.writes, 1, Len(r.writes))
  /\ UNCHANGED <<calls, glyphs, fdCount, src, subset_fd_count, subst_fdselect_size,
                 subst_fdselect_format, subst_first_glyphs, fdmap, num_ranges,
                 entry_first_glyphs, entry_fdmap>>

Next == Plan \/ PlanLarge \/ Serialize

Spec == Init /\ [][Next]_vars

NextReuse == Replan \/ Serialize

SpecReuse == Init /\ [][NextReuse]_vars

(* ------------------------- notions of the claims ---------------------- *)
\* the planner returned true, and not for the identity case or no glyphs
Planned == pc \in {"planned", "serialized", "serialize_failed"}

\* the planner returned true
PlanSucceeded == Planned \/ pc \in {"empty", "identity"}

NumSubsetGlyphs == Len(glyphs)

\* the original font dict of the glyph at new index i (0-based)
FdAt(i) == get_fd(src, glyphs[i + 1])

\* the font dicts the retained glyphs use
UsedFds == { FdAt(i) : i \in 0..(NumSubsetGlyphs - 1) }

\* the new glyph indices where a run of equal font dicts starts
RunStarts == { i \in 0..(NumSubsetGlyphs - 1) : i = 0 \/ FdAt(i) # FdAt(i - 1) }

\* q lists the elements of S in strictly ascending order
ListsAscending(q, S) ==
  /\ Len(q) = Cardinality(S)
  /\ \A k \in 1..Len(q) : q[k] \in S
  /\ \A k \in 1..(Len(q) - 1) : q[k] < q[k + 1]

\* the unsigned big-endian number in the w bytes of the output at off
Field(off, w) ==
  IF w = 1 THEN out[off]
  ELSE IF w = 2 THEN (out[off] * 256) + out[off + 1]
  ELSE (((((out[off] * 256) + out[off + 1]) * 256) + out[off + 2]) * 256) + out[off + 3]

\* a decoder of the output: the font dict of new glyph index i
Decode(i) ==
  IF out[0] = 0 THEN Field(1 + i, 1)
  ELSE LET gw == IF out[0] = 3 THEN 2 ELSE 4
           fw == IF out[0] = 3 THEN 1 ELSE 2
           n == Field(1, gw)
           firstOf(k) == Field(1 + gw + (k * (gw + fw)), gw)
           fdOf(k) == Field(1 + gw + (k * (gw + fw)) + gw, fw)
           at == { k \in 0..(n - 1) : firstOf(k) <= i }
           k == CHOOSE x \in at : \A y \in at : firstOf(y) <= firstOf(x)
       IN IF at = {} THEN -1 ELSE fdOf(k)

\* the byte offsets the serializer has written a field to
WrittenOffsets ==
  UNION { (writes[k].off)..(writes[k].off + writes[k].w - 1) : k \in 1..Len(writes) }

(* -------------------------------- claims ------------------------------ *)
\* C1: decoding the serialized bytes gives, for every new glyph index i, the
\* compacted index fdmap[src.get_fd(glyphs[i])], in all three formats.
C1_RoundTrip ==
  pc = "serialized" =>
    \A i \in 0..(NumSubsetGlyphs - 1) : Decode(i) = RemapGet(fdmap, FdAt(i))

C3_IdentityProducesNothing ==
  pc = "identity" =>
    /\ subst_first_glyphs = entry_first_glyphs
    /\ fdmap = entry_fdmap

\* C4: on success subset_fd_count is the number of distinct font dicts of the
\* retained glyphs, also for no glyphs.
C4_SubsetFdCount ==
  PlanSucceeded => subset_fd_count = Cardinality(UsedFds)

C4_Witness ==
  /\ pc = "planned"
  /\ subset_fd_count = 2
  /\ num_ranges = 3

\* C5: fdmap is an order-preserving bijection from the used font dicts onto
\* [0, subset_fd_count), and every unused font dict is unmapped.
C5_FdmapBijection ==
  Planned =>
    /\ Len(fdmap.map) = fdCount
    /\ \A a \in UsedFds : RemapGet(fdmap, a) \in 0..(subset_fd_count - 1)
    /\ { RemapGet(fdmap, a) : a \in UsedFds } = 0..(subset_fd_count - 1)
    /\ \A a \in UsedFds : \A b \in UsedFds :
         a < b => RemapGet(fdmap, a) < RemapGet(fdmap, b)
    /\ \A a \in (0..(fdCount - 1)) \ UsedFds : RemapGet(fdmap, a) = CFF_UNDEF_CODE

C5_Witness ==
  /\ pc = "planned"
  /\ UsedFds = {0, 2}
  /\ get_fd(src, glyphs[1]) = 2
  /\ fdmap.map = <<0, CFF_UNDEF_CODE, 1>>

\* C6: the pass records a range start at new glyph index i exactly when i = 0
\* or the font dict differs from that of glyph i-1; the starts are strictly
\* ascending and num_ranges, which the sizes use, counts them.
C6_RangeStarts ==
  pc \in {"identity", "planned", "serialized", "serialize_failed"} =>
    /\ ListsAscending(ScanGlyphs(glyphs, src, 0, NumSubsetGlyphs,
                                 ScanStart(entry_first_glyphs)).first_glyphs,
                      RunStarts)
    /\ num_ranges = Cardinality(RunStarts)
    /\ (pc = "identity" \/ subst_fdselect_format \in {3, 4}) =>
         ListsAscending(subst_first_glyphs, RunStarts)
    /\ (Planned /\ subst_fdselect_format = 3) =>
         subst_fdselect_size = FDSelect3_min_size
                               + (FDSelect3_Range_static_size * Cardinality(RunStarts))
    /\ (Planned /\ subst_fdselect_format = 4) =>
         subst_fdselect_size = FDSelect4_min_size
                               + (FDSelect4_Range_static_size * Cardinality(RunStarts))

C6_Witness ==
  /\ pc = "planned"
  /\ subst_fdselect_format = 3
  /\ subst_first_glyphs = <<0, 3>>

\* C7: with subset_fd_count <= 255, format 0 is chosen iff its size is <= the
\* size of format 3 (equal sizes choose format 0), otherwise format 3; the
\* size is that of the chosen format and the range list is emptied exactly
\* when format 0 is chosen.
C7_NarrowChoice ==
  (Planned /\ subset_fd_count <= 255) =>
    LET size0 == FDSelect0_min_size + (HBUINT8_static_size * NumSubsetGlyphs)
        size3 == FDSelect3_min_size
                 + (FDSelect3_Range_static_size * Cardinality(RunStarts))
    IN /\ subst_fdselect_format \in {0, 3}
       /\ subst_fdselect_format = 0 <=> size0 <= size3
       /\ subst_fdselect_size = (IF subst_fdselect_format = 0 THEN size0 ELSE size3)
       /\ subst_first_glyphs = <<>> <=> subst_fdselect_format = 0

C7_Witness ==
  /\ pc = "planned"
  /\ subst_fdselect_format = 0
  /\ subst_fdselect_size = FDSelect3_min_size + (FDSelect3_Range_static_size * num_ranges)

\* C8: with subset_fd_count > 255 the chosen format is 4 whatever the other
\* sizes would be, and no plan with format 4 is returned for a source that is
\* not in format 4: that call stops on the assertion.
C8_WideChoice ==
  /\ (Planned /\ subset_fd_count > 255) =>
       /\ subst_fdselect_format = 4
       /\ subst_fdselect_size = FDSelect4_min_size
                                + (FDSelect4_Range_static_size * Cardinality(RunStarts))
  /\ (Planned /\ subst_fdselect_format = 4) => src.format = 4
  /\ (pc # "idle" /\ Cardinality(UsedFds) > 255 /\ Cardinality(UsedFds) # fdCount
        /\ src.format # 4) => pc \in {"aborted", "plan_failed"}

C8_Witness ==
  /\ pc = "planned"
  /\ subset_fd_count = 256
  /\ subst_fdselect_format = 4
  /\ FDSelect0_min_size + NumSubsetGlyphs < subst_fdselect_size

\* C9: no value the serializer writes is truncated by its field.
C9_NoTruncation ==
  pc = "serialized" => \A k \in 1..Len(writes) : Fits(writes[k].w, writes[k].v)

\* C10: whatever the range list held on entry, a successful call that selects
\* format 3 or 4 leaves it holding exactly the range starts of that call's
\* glyphs, num_ranges of them.
C10_RangeListOfThisCall ==
  (Planned /\ subst_fdselect_format \in {3, 4}) =>
    /\ ListsAscending(subst_first_glyphs, RunStarts)
    /\ Len(subst_first_glyphs) = num_ranges

====
